---- MODULE Spec2Model ----
(***************************************************************************)
(* Model of aws/resource_aws_neptune_parameter_group.go: the Create, Read, *)
(* Update and Delete handlers of the Neptune parameter group resource, the *)
(* set hash of a parameter, and the remote calls the handlers issue.       *)
(*                                                                         *)
(* Strings the code transforms or hashes (parameter names and values,      *)
(* group names) are sequences of byte values; strings the code only        *)
(* compares (error codes, apply methods) are TLA+ strings.                 *)
(***************************************************************************)
EXTENDS Integers, Sequences, FiniteSets, TLC

\* const maxParams = 20: parameters per Reset/Modify call.
maxParams == 20

\* Bounds of the model.
MaxBulk == 41          \* largest parameter set of the bulk inputs
MaxAttempts == 3       \* calls resource.Retry makes before its time budget is spent
MaxInvocations == 2    \* handler invocations in one behaviour
PageSize == 10         \* parameters in one page of a DescribeDBParameters response

(***************************************************************************)
(* Bytes and strings.                                                      *)
(***************************************************************************)
Hyphen == 45

\* strings.ToLower on ASCII: 'A'..'Z' map to 'a'..'z', every other byte is kept.
ToLowerByte(c) == IF c >= 65 /\ c <= 90 THEN c + 32 ELSE c

ToLower(s) == [i \in 1..Len(s) |-> ToLowerByte(s[i])]

\* Lexicographic order of byte strings (Go's < on strings, sort.StringSlice).
RECURSIVE StringLess(_, _)
StringLess(s, t) ==
    IF s = << >> THEN t # << >>
    ELSE IF t = << >> THEN FALSE
    ELSE IF Head(s) # Head(t) THEN Head(s) < Head(t)
    ELSE StringLess(Tail(s), Tail(t))

(***************************************************************************)
(* hashcode.String: the IEEE CRC-32 of the string, as a non-negative int.  *)
(* A 32-bit word is the pair <<high 16 bits, low 16 bits>>.                *)
(***************************************************************************)
RECURSIVE Xor16(_, _, _)
Xor16(a, b, k) ==
    IF k = 0 THEN 0
    ELSE ((a + b) % 2) + 2 * Xor16(a \div 2, b \div 2, k - 1)

XorWord(v, w) == << Xor16(v[1], w[1], 16), Xor16(v[2], w[2], 16) >>

ShiftRight1(w) == << w[1] \div 2, (w[2] \div 2) + (w[1] % 2) * 32768 >>

\* crc32.IEEE, reflected polynomial 0xEDB88320.
IEEEPoly == << 60856, 33568 >>

AllOnes == << 65535, 65535 >>

CrcRound(w) ==
    IF w[2] % 2 = 1 THEN XorWord(ShiftRight1(w), IEEEPoly) ELSE ShiftRight1(w)

RECURSIVE CrcRounds(_, _)
CrcRounds(w, k) ==
    IF k = 0 THEN w
    ELSE LET r == CrcRound(w)
         IN  IF r[1] >= 0 THEN CrcRounds(r, k - 1) ELSE r

CrcByte(w, b) == CrcRounds(XorWord(w, << 0, b >>), 8)

RECURSIVE CrcUpdate(_, _)
CrcUpdate(w, s) ==
    IF s = << >> THEN w
    ELSE LET r == CrcByte(w, Head(s))
         IN  IF r[1] >= 0 THEN CrcUpdate(r, Tail(s)) ELSE r

ChecksumIEEE(s) == XorWord(CrcUpdate(AllOnes, s), AllOnes)

\* strconv.Itoa of the 32-bit value hi * 65536 + lo, by long division by 10.
RECURSIVE Itoa(_)
Itoa(h) ==
    LET hi == h[1]
        lo == h[2]
        rest == (hi % 10) * 65536 + lo
        q == << hi \div 10, rest \div 10 >>
        digit == << 48 + (rest % 10) >>
    IN  IF q = << 0, 0 >> THEN digit ELSE Itoa(q) \o digit

\* hashcode.String(s): int(crc32.ChecksumIEEE([]byte(s))), never negative on
\* a 64-bit int; kept as the pair of 16-bit halves.
hashcode_String(s) == ChecksumIEEE(s)

(***************************************************************************)
(* Parameters and the parameter sets the handlers are given.               *)
(***************************************************************************)
RECURSIVE Digits(_)
Digits(i) == IF i < 10 THEN << 48 + i >> ELSE Digits(i \div 10) \o << 48 + (i % 10) >>

\* Values: "on", "ON", "off", "x", "X", "y-z", "z".
ValOn == << 111, 110 >>
ValON == << 79, 78 >>
ValOff == << 111, 102, 102 >>
ValX == << 120 >>
ValUpperX == << 88 >>
ValYZ == << 121, 45, 122 >>
ValZ == << 122 >>

\* Parameter names "a", "b" and "a-y".
NameA == << 97 >>
NameB == << 98 >>
NameAY == << 97, 45, 121 >>

\* Parameter "p<i>" with the given value.
Bulk(i, v) == [name |-> << 112 >> \o Digits(i), value |-> v, apply_method |-> "immediate"]

BulkValues == << ValOn, ValON, ValOff >>

BulkSeq ==
    [k \in 1..(6 * MaxBulk) |-> Bulk(((k - 1) \div 3) + 1, BulkValues[((k - 1) % 3) + 1])]

\* Declared parameters "a", "b" and "a-y" in the variants of value case and
\* apply method; "a" with "y-z" and "a-y" with "z" both give the hashed
\* string "a-y-z-".
SmallSeq ==
    << [name |-> NameA, value |-> ValX, apply_method |-> "immediate"],
       [name |-> NameA, value |-> ValUpperX, apply_method |-> "immediate"],
       [name |-> NameA, value |-> ValX, apply_method |-> "pending-reboot"],
       [name |-> NameA, value |-> ValYZ, apply_method |-> "immediate"],
       [name |-> NameAY, value |-> ValZ, apply_method |-> "immediate"],
       [name |-> NameB, value |-> ValX, apply_method |-> "immediate"],
       [name |-> NameB, value |-> ValYZ, apply_method |-> "pending-reboot"] >>

Range(f) == {f[i] : i \in DOMAIN f}

SmallParameters == Range(SmallSeq)

\* Line 75: the StateFunc of apply_method; a recorded parameter carries "".
recorded(m) == [name |-> m.name, value |-> m.value, apply_method |-> ""]

\* The recorded forms of the small parameters and of "p<i>" with "on".
RecordedSmallSeq ==
    << recorded([name |-> NameA, value |-> ValX]),
       recorded([name |-> NameA, value |-> ValUpperX]),
       recorded([name |-> NameA, value |-> ValYZ]),
       recorded([name |-> NameAY, value |-> ValZ]),
       recorded([name |-> NameB, value |-> ValX]),
       recorded([name |-> NameB, value |-> ValYZ]) >>

RecordedBulkSeq == [k \in 1..MaxBulk |-> recorded(Bulk(k, ValOn))]

UniverseSeq == BulkSeq \o SmallSeq \o RecordedBulkSeq \o RecordedSmallSeq

ParameterUniverse == Range(UniverseSeq)

\* Variant: the apply method takes part in the hash.
resourceAwsNeptuneParameterHash_ApplyMethod(m) ==
    hashcode_String(m.name \o << Hyphen >> \o ToLower(m.value) \o << Hyphen >>
                    \o (IF m.apply_method = "immediate" THEN << 105 >> ELSE << 112 >>))

\* resourceAwsNeptuneParameterHash: hash of "<name>-<lower(value)>-".
resourceAwsNeptuneParameterHash(m) ==
    hashcode_String(m.name \o << Hyphen >> \o ToLower(m.value) \o << Hyphen >>)

\* schema.Set keys an element by the decimal string of its hash code; the
\* codes of the universe are computed once.
SetCode == [m \in ParameterUniverse |-> Itoa(resourceAwsNeptuneParameterHash(m))]

\* A schema.Set holds one element per code.
IsSet(s) == \A x, y \in s : SetCode[x] = SetCode[y] => x = y

\* The codes of a set (the keys of schema.Set's map).
Codes(s) == {SetCode[x] : x \in s}

\* schema.Set.Difference: the elements of s whose code is not a code of t.
Difference(s, t) == LET other == Codes(t) IN {x \in s : SetCode[x] \notin other}

CodeLess(x, y) == StringLess(SetCode[x], SetCode[y])

\* The universe in sort.Strings order of the codes, computed once.
CodeOrder == SortSeq(UniverseSeq, CodeLess)

InSet(s) == LET Member(x) == x \in s IN SelectSeq(CodeOrder, Member)

\* schema.Set.List: the elements in the order of their sorted codes.
List(s) == InSet(s)

\* expandNeptuneParameters: one neptune.Parameter per list element.
expandNeptuneParameters(l) ==
    [i \in 1..Len(l) |-> [ParameterName |-> l[i].name,
                          ParameterValue |-> l[i].value,
                          ApplyMethod |-> l[i].apply_method]]

\* Lines 239-242: with partial mode off the framework records the declared
\* set on return, each apply_method through its StateFunc (line 75).
recordedParameter(s) == {recorded(m) : m \in s}

\* schema.ResourceData.HasChange on a set attribute: the sets GetChange
\* returns differ, an element compared with its apply_method.
HasChange(old, new) == old # new

(***************************************************************************)
(* Errors of the remote service and their classification.                  *)
(***************************************************************************)
\* A nil error.
NilErr == [code |-> "", message |-> << >>]

\* InvalidDBParameterGroupState: "... has pending changes".
PendingErr == [code |-> "InvalidDBParameterGroupState",
               message |-> << "group", "has", "pending", "changes" >>]

\* InvalidDBParameterGroupState with another message.
StateErr == [code |-> "InvalidDBParameterGroupState",
             message |-> << "group", "is", "in", "use" >>]

NotFoundErr == [code |-> "DBParameterGroupNotFound", message |-> << "not", "found" >>]

OtherErr == [code |-> "InternalFailure", message |-> << "internal", "failure" >>]

\* strings.Contains on messages, a message being its sequence of words.
Contains(msg, sub) ==
    \E i \in 0..Len(msg) :
        /\ i + Len(sub) <= Len(msg)
        /\ \A j \in 1..Len(sub) : msg[i + j] = sub[j]

\* isAWSErr(err, code, message).
isAWSErr(e, code, message) == e # NilErr /\ e.code = code /\ Contains(e.message, message)

\* What a handler returns: nil, or an error with the context it was wrapped in.
Returned(context, cause) == [context |-> context, cause |-> cause]

ReturnedNil == Returned("", NilErr)

(***************************************************************************)
(* State.                                                                  *)
(***************************************************************************)
VARIABLES
    op,              \* the handler the framework invoked
    pc,              \* position in the handler
    invocations,     \* handlers invoked so far
    id,              \* d.Id()
    name,            \* d.Get("name")
    family,          \* d.Get("family")
    description,     \* d.Get("description")
    o,               \* d.GetChange("parameter"): the recorded set
    n,               \* d.GetChange("parameter"): the declared set
    parameter,       \* the recorded "parameter" attribute
    partial,         \* d.Partial: only the keys of SetPartial are recorded
    parameters,      \* Read's parameters (line 144)
    marker,          \* parameters the pages received so far hold
    toRemove,        \* Update's toRemove
    toAdd,           \* Update's toAdd
    paramsToModify,  \* Update's current batch
    attempts,        \* calls made by the running resource.Retry
    removals,        \* toRemove as computed on line 178
    additions,       \* toAdd as computed on line 185
    err,             \* what the handler returned
    calls,           \* remote calls issued by the running handler, in order
    created,         \* the remote group was created by Create in this behaviour
    remoteExists,    \* the remote service holds the group
    remoteName,      \* its canonical name
    remoteFamily,    \* its family
    remoteDescription, \* its description
    remoteParams     \* its user-origin parameters

vars == << op, pc, invocations, id, name, family, description, o, n, parameter,
           partial, parameters, marker,
           toRemove, toAdd, paramsToModify, attempts, removals, additions, err,
           calls, created, remoteExists, remoteName, remoteFamily,
           remoteDescription, remoteParams >>

locals == << toRemove, toAdd, paramsToModify, attempts, removals, additions >>
remote == << remoteExists, remoteName, remoteFamily, remoteDescription, remoteParams >>

\* Group names "pg" and "PG".
GroupPG == << 112, 103 >>
GroupUpperPG == << 80, 71 >>

(***************************************************************************)
(* Inputs.                                                                 *)
(***************************************************************************)
BulkShapes == {"case", "value", "disjoint"}

\* "p1".."p<a>", each "on", as recorded.
BulkOld(a) == {recorded(Bulk(i, ValOn)) : i \in 1..a}

\* b parameters: the same names with value "ON", the same names with value
\* "off", or b further names.
BulkNew(a, b, shape) ==
    CASE shape = "case" -> {Bulk(i, ValON) : i \in 1..b}
      [] shape = "value" -> {Bulk(i, ValOff) : i \in 1..b}
      [] shape = "disjoint" -> {Bulk(a + i, ValOn) : i \in 1..b}

SmallSets == {s \in SUBSET SmallParameters : IsSet(s)}

\* A parameter group holds one value per parameter name.
UniqueNames(s) == \A x \in s : \A y \in s : x.name = y.name => x = y

\* The sets Read can have recorded: a schema.Set of recorded parameters, of
\* a group that holds one value per name.
RecordedSets ==
    {s \in SUBSET Range(RecordedSmallSeq) : IsSet(s) /\ UniqueNames(s)}

\* The family and the description of the groups (line 52: the default
\* description).
FamilyNeptune1 == "neptune1"
DescriptionDefault == "Managed by Terraform"

\* Every size of one set with the empty, the one-batch and the largest size
\* of the other.
BulkEdge == {0, maxParams, MaxBulk}

BulkSizes ==
    ((0..MaxBulk) \X BulkEdge) \cup (BulkEdge \X (0..MaxBulk))

BulkChanges ==
    {[old |-> BulkOld(ab[1]), new |-> BulkNew(ab[1], ab[2], shape), name |-> GroupPG] :
        ab \in BulkSizes, shape \in BulkShapes}

SmallChanges ==
    {[old |-> s, new |-> t, name |-> g] :
        s \in RecordedSets, t \in SmallSets, g \in {GroupPG, GroupUpperPG}}

\* The remote user-origin parameters that correspond to a recorded set.
RemoteOf(s) == {[name |-> m.name, value |-> m.value] : m \in s}

InitLocals ==
    /\ toRemove = << >>
    /\ toAdd = << >>
    /\ paramsToModify = << >>
    /\ attempts = 0
    /\ removals = << >>
    /\ additions = << >>
    /\ err = Returned("", NilErr)
    /\ calls = << >>
    /\ invocations = 1
    /\ created = FALSE
    /\ partial = FALSE
    /\ parameters = << >>
    /\ marker = 0

InitUpdate ==
    /\ op = "Update"
    /\ \E c \in BulkChanges \cup SmallChanges :
        /\ o = c.old
        /\ n = c.new
        /\ name = ToLower(c.name)
        /\ id = name
        /\ parameter = c.old
        /\ remoteParams = RemoteOf(c.old)
    /\ family = FamilyNeptune1
    /\ description = DescriptionDefault
    /\ remoteExists = TRUE
    /\ remoteName = GroupPG
    /\ remoteFamily = FamilyNeptune1
    /\ remoteDescription = DescriptionDefault

InitCreate ==
    /\ op = "Create"
    /\ \E c \in BulkChanges \cup SmallChanges :
        /\ c.old = {}
        /\ o = {}
        /\ n = c.new
        /\ name = c.name
    /\ id = << >>
    /\ family = FamilyNeptune1
    /\ description = DescriptionDefault
    /\ parameter = {}
    /\ remoteParams = {}
    /\ remoteExists = FALSE
    /\ remoteName = << >>
    /\ remoteFamily = ""
    /\ remoteDescription = ""

InitRead ==
    /\ op = "Read"
    /\ id \in {GroupPG, GroupUpperPG}
    /\ name = id
    /\ \E s, t \in RecordedSets :
        /\ o = s
        /\ n = s
        /\ parameter = s
        /\ \/ remoteExists = TRUE /\ remoteParams = RemoteOf(t)
           \/ remoteExists = FALSE /\ remoteParams = {}
    \* An imported resource has no recorded family or description yet.
    /\ \/ family = FamilyNeptune1 /\ description = DescriptionDefault
       \/ family = "" /\ description = ""
    /\ remoteName = GroupPG
    /\ remoteFamily = FamilyNeptune1
    /\ remoteDescription = DescriptionDefault

InitDelete ==
    /\ op = "Delete"
    /\ id = GroupPG
    /\ name = id
    /\ \E s \in RecordedSets :
        /\ o = s
        /\ n = s
        /\ parameter = s
        /\ \/ remoteExists = TRUE /\ remoteParams = RemoteOf(s)
           \/ remoteExists = FALSE /\ remoteParams = {}
    /\ family = FamilyNeptune1
    /\ description = DescriptionDefault
    /\ remoteName = GroupPG
    /\ remoteFamily = FamilyNeptune1
    /\ remoteDescription = DescriptionDefault

Init ==
    /\ InitLocals
    /\ (InitCreate \/ InitRead \/ InitUpdate \/ InitDelete)
    /\ pc = op

(***************************************************************************)
(* The remote service.                                                     *)
(***************************************************************************)
\* A call on an existing group succeeds or fails; on an absent group it
\* fails.
ParameterCallResults ==
    IF remoteExists THEN {NilErr, PendingErr, StateErr, OtherErr}
    ELSE {NotFoundErr, OtherErr}

DeleteResults ==
    IF remoteExists THEN {NilErr, PendingErr, StateErr, OtherErr}
    ELSE {NotFoundErr, OtherErr}

DescribeResults ==
    IF remoteExists THEN {NilErr, OtherErr} ELSE {NotFoundErr, OtherErr}

CreateResults ==
    IF remoteExists THEN {OtherErr} ELSE {NilErr, OtherErr}

Names(batch) == {batch[i].ParameterName : i \in 1..Len(batch)}

\* A successful reset removes the named parameters from the user-origin set.
AfterReset(params, batch) == {p \in params : p.name \notin Names(batch)}

\* A successful modify sets each named parameter to the given value; the
\* last value given for a name is the one it keeps.
AfterModify(params, batch) ==
    AfterReset(params, batch) \cup
        {[name |-> batch[i].ParameterName, value |-> batch[i].ParameterValue] :
            i \in {j \in 1..Len(batch) :
                      \A k \in (j + 1)..Len(batch) :
                          batch[k].ParameterName # batch[j].ParameterName}}

Call(api, group, params, e) ==
    [api |-> api, DBParameterGroupName |-> group, Parameters |-> params, err |-> e]

\* The parameters of the group that the user did not set (the engine's
\* system and default values), "s" and "t".
SystemOrder ==
    << [name |-> << 115 >>, value |-> ValOn], [name |-> << 116 >>, value |-> ValOff] >>

SystemParams == Range(SystemOrder)

\* The order in which the service lists parameters.
RemoteOrder ==
    [k \in 1..Len(BulkSeq) |-> [name |-> BulkSeq[k].name, value |-> BulkSeq[k].value]]
    \o [k \in 1..Len(RecordedSmallSeq) |->
            [name |-> RecordedSmallSeq[k].name, value |-> RecordedSmallSeq[k].value]]
    \o SystemOrder

\* DescribeDBParameters: the parameters of the origin asked for, or of every
\* origin.
QueryParameters(source) ==
    LET held == IF source = "user" THEN remoteParams ELSE remoteParams \cup SystemParams
        Held(p) == p \in held
    IN  SelectSeq(RemoteOrder, Held)

\* One DescribeDBParameters request: the page of at most PageSize parameters
\* that follows the first `from` parameters of the list, and whether it is
\* the last page.
PageAfter(list, from) ==
    LET to == IF from + PageSize < Len(list) THEN from + PageSize ELSE Len(list)
    IN  [page |-> SubSeq(list, from + 1, to), lastPage |-> to = Len(list)]

(***************************************************************************)
(* Handlers.                                                               *)
(***************************************************************************)
Return(context, cause) ==
    /\ pc' = "done"
    /\ err' = Returned(context, cause)

\* The first batch of a list and the rest of the list (lines 193-198, 221-226).
FirstBatch(list) ==
    IF Len(list) <= maxParams THEN list ELSE SubSeq(list, 1, maxParams)

\* Variant: the rest starts one element late.
RestAfterBatch_SkipsOne(list) ==
    IF Len(list) <= maxParams THEN << >> ELSE SubSeq(list, maxParams + 2, Len(list))

RestAfterBatch(list) ==
    IF Len(list) <= maxParams THEN << >> ELSE SubSeq(list, maxParams + 1, Len(list))

\* Variant: the budget never runs out.
BudgetLeft_Always(made) == TRUE

\* resource.Retry calls again after a retryable error while its time budget
\* lasts; the budget is a number of calls.
BudgetLeft(made) == made < MaxAttempts

\* Variant: no reset error is retried.
ResetRetryable_Never(e) == FALSE

\* Variant: the reset error is classified by its code alone.
ResetRetryable_AnyMessage(e) == isAWSErr(e, "InvalidDBParameterGroupState", << >>)

\* Lines 208-211: the reset error that is retried.
ResetRetryable(e) ==
    isAWSErr(e, "InvalidDBParameterGroupState", << "has", "pending", "changes" >>)

\* Variant: "not found" is an error like any other.
DeleteAbsorbed_Never(e) == FALSE

\* Variant: only the "has pending changes" message is retried.
DeleteRetryable_PendingOnly(e) ==
    isAWSErr(e, "InvalidDBParameterGroupState", << "has", "pending", "changes" >>)

\* Lines 256-262: the delete errors that end Delete with success, and those
\* that are retried.
DeleteAbsorbed(e) == isAWSErr(e, "DBParameterGroupNotFound", << >>)

DeleteRetryable(e) == isAWSErr(e, "InvalidDBParameterGroupState", << >>)

\* Variant: SetId with the declared name before the error of
\* CreateDBParameterGroup is looked at.
Create_SetIdFirst ==
    /\ pc = "Create"
    /\ \E e \in CreateResults :
        /\ calls' = Append(calls, Call("CreateDBParameterGroup", name, << >>, e))
        /\ id' = ToLower(name)
        /\ IF e # NilErr
           THEN /\ Return("Error creating Neptune Parameter Group", e)
                /\ UNCHANGED << created, remote >>
           ELSE /\ remoteExists' = TRUE
                /\ remoteName' = ToLower(name)
                /\ remoteFamily' = family
                /\ remoteDescription' = description
                /\ remoteParams' = {}
                /\ created' = TRUE
                /\ pc' = "Update"
                /\ UNCHANGED err
    /\ UNCHANGED << op, partial, parameters, marker, family, description, invocations, name, o, n, parameter, locals >>

\* Variant: the identifier is not set before Update runs.
Create_NoSetId ==
    /\ pc = "Create"
    /\ \E e \in CreateResults :
        /\ calls' = Append(calls, Call("CreateDBParameterGroup", name, << >>, e))
        /\ IF e # NilErr
           THEN /\ Return("Error creating Neptune Parameter Group", e)
                /\ UNCHANGED << created, remote >>
           ELSE /\ remoteExists' = TRUE
                /\ remoteName' = ToLower(name)
                /\ remoteFamily' = family
                /\ remoteDescription' = description
                /\ remoteParams' = {}
                /\ created' = TRUE
                /\ pc' = "Update"
                /\ UNCHANGED err
    /\ UNCHANGED << op, partial, parameters, marker, id, family, description, invocations, name, o, n, parameter, locals >>

\* Variant: Create ends with Read in place of Update.
Create_SkipsUpdate ==
    /\ pc = "Create"
    /\ \E e \in CreateResults :
        /\ calls' = Append(calls, Call("CreateDBParameterGroup", name, << >>, e))
        /\ IF e # NilErr
           THEN /\ Return("Error creating Neptune Parameter Group", e)
                /\ UNCHANGED << id, created, remote >>
           ELSE /\ remoteExists' = TRUE
                /\ remoteName' = ToLower(name)
                /\ remoteFamily' = family
                /\ remoteDescription' = description
                /\ remoteParams' = {}
                /\ created' = TRUE
                /\ id' = remoteName'
                /\ pc' = "Read"
                /\ UNCHANGED err
    /\ UNCHANGED << op, partial, parameters, marker, family, description, invocations, name, o, n, parameter, locals >>

\* resourceAwsNeptuneParameterGroupCreate: CreateDBParameterGroup, SetId to
\* the name in the response (the service's lower-case form of the name), then
\* Update.
Create ==
    /\ pc = "Create"
    /\ \E e \in CreateResults :
        /\ calls' = Append(calls, Call("CreateDBParameterGroup", name, << >>, e))
        /\ IF e # NilErr
           THEN /\ Return("Error creating Neptune Parameter Group", e)
                /\ UNCHANGED << id, created, remote >>
           ELSE /\ remoteExists' = TRUE
                /\ remoteName' = ToLower(name)
                /\ remoteFamily' = family
                /\ remoteDescription' = description
                /\ remoteParams' = {}
                /\ created' = TRUE
                /\ id' = remoteName'
                /\ pc' = "Update"
                /\ UNCHANGED err
    /\ UNCHANGED << op, partial, parameters, marker, family, description, invocations, name, o, n, parameter, locals >>

\* Variant: the addition loop runs in place of the removal loop.
UpdateDiff_ModifyFirst ==
    /\ pc = "Update"
    /\ IF HasChange(o, n)
       THEN /\ toRemove' = expandNeptuneParameters(List(Difference(o, n)))
            /\ toAdd' = expandNeptuneParameters(List(Difference(n, o)))
            /\ removals' = toRemove'
            /\ additions' = toAdd'
            /\ partial' = TRUE
            /\ pc' = "modify"
       ELSE /\ pc' = "Read"
            /\ partial' = FALSE
            /\ UNCHANGED << toRemove, toAdd, removals, additions >>
    /\ UNCHANGED << op, parameters, marker, family, description, created, invocations, id, name, o, n, parameter, paramsToModify,
                    attempts, err, calls, remote >>

\* resourceAwsNeptuneParameterGroupUpdate, lines 164-190: partial mode on, then
\* the two differences; lines 242-244 when the set did not change.
UpdateDiff ==
    /\ pc = "Update"
    /\ IF HasChange(o, n)
       THEN /\ toRemove' = expandNeptuneParameters(List(Difference(o, n)))
            /\ toAdd' = expandNeptuneParameters(List(Difference(n, o)))
            /\ removals' = toRemove'
            /\ additions' = toAdd'
            /\ partial' = TRUE
            /\ pc' = "reset"
       ELSE /\ pc' = "Read"
            /\ partial' = FALSE
            /\ UNCHANGED << toRemove, toAdd, removals, additions >>
    /\ UNCHANGED << op, parameters, marker, family, description, created, invocations, id, name, o, n, parameter, paramsToModify,
                    attempts, err, calls, remote >>

\* Lines 192-202: the head of the removal loop takes the next batch.
ResetLoop ==
    /\ pc = "reset"
    /\ IF Len(toRemove) > 0
       THEN /\ paramsToModify' = FirstBatch(toRemove)
            /\ toRemove' = RestAfterBatch(toRemove)
            /\ attempts' = 0
            /\ pc' = "reset_call"
       ELSE /\ pc' = "modify"
            /\ UNCHANGED << toRemove, paramsToModify, attempts >>
    /\ UNCHANGED << op, partial, parameters, marker, family, description, created, invocations, id, name, o, n, parameter, toAdd, removals,
                    additions, err, calls, remote >>

\* Lines 205-217: one ResetDBParameterGroup call inside resource.Retry.
ResetCall ==
    /\ pc = "reset_call"
    /\ \E e \in ParameterCallResults :
        /\ calls' = Append(calls, Call("ResetDBParameterGroup", name, paramsToModify, e))
        /\ attempts' = attempts + 1
        /\ IF e = NilErr
           THEN /\ remoteParams' = AfterReset(remoteParams, paramsToModify)
                /\ pc' = "reset"
                /\ UNCHANGED err
           ELSE /\ UNCHANGED remoteParams
                /\ IF ResetRetryable(e) /\ BudgetLeft(attempts + 1)
                   THEN UNCHANGED << pc, err >>
                   ELSE Return("Error resetting Neptune Parameter Group", e)
    /\ UNCHANGED << op, partial, parameters, marker, family, description, created, invocations, id, name, o, n, parameter, toRemove, toAdd,
                    paramsToModify, removals, additions, remoteExists, remoteName,
                    remoteFamily, remoteDescription >>

\* Lines 220-230: the head of the addition loop takes the next batch;
\* lines 239-244 when none is left: the parameter key is marked, partial
\* mode ends, and Read follows.
ModifyLoop ==
    /\ pc = "modify"
    /\ IF Len(toAdd) > 0
       THEN /\ paramsToModify' = FirstBatch(toAdd)
            /\ toAdd' = RestAfterBatch(toAdd)
            /\ pc' = "modify_call"
            /\ UNCHANGED << partial, parameter >>
       ELSE /\ parameter' = recordedParameter(n)
            /\ partial' = FALSE
            /\ pc' = "Read"
            /\ UNCHANGED << toAdd, paramsToModify >>
    /\ UNCHANGED << op, parameters, marker, family, description, created, invocations, id, name, o, n, toRemove,
                    attempts, removals, additions, err, calls, remote >>

\* Variant: a failed ModifyDBParameterGroup is followed by a reset of the
\* additions made so far.
ModifyCall_UndoesOnFailure ==
    /\ pc = "modify_call"
    /\ \E e \in ParameterCallResults :
        IF e = NilErr
        THEN /\ calls' = Append(calls, Call("ModifyDBParameterGroup", name, paramsToModify, e))
             /\ remoteParams' = AfterModify(remoteParams, paramsToModify)
             /\ pc' = "modify"
             /\ UNCHANGED err
        ELSE /\ calls' = calls \o
                    << Call("ModifyDBParameterGroup", name, paramsToModify, e),
                       Call("ResetDBParameterGroup", name, FirstBatch(additions), NilErr) >>
             /\ remoteParams' = AfterReset(remoteParams, FirstBatch(additions))
             /\ Return("Error modifying Neptune Parameter Group", e)
    /\ UNCHANGED << op, partial, parameters, marker, family, description, created, invocations, id, name, o, n, parameter, toRemove, toAdd,
                    paramsToModify, attempts, removals, additions, remoteExists,
                    remoteName, remoteFamily, remoteDescription >>

\* Variant: ModifyDBParameterGroup inside the retry of the reset path.
ModifyCall_Retried ==
    /\ pc = "modify_call"
    /\ \E e \in ParameterCallResults :
        /\ calls' = Append(calls, Call("ModifyDBParameterGroup", name, paramsToModify, e))
        /\ IF e = NilErr
           THEN /\ remoteParams' = AfterModify(remoteParams, paramsToModify)
                /\ pc' = "modify"
                /\ UNCHANGED << err, attempts >>
           ELSE /\ UNCHANGED remoteParams
                /\ IF ResetRetryable(e) /\ BudgetLeft(attempts + 1)
                   THEN /\ attempts' = attempts + 1
                        /\ UNCHANGED << pc, err >>
                   ELSE /\ Return("Error modifying Neptune Parameter Group", e)
                        /\ UNCHANGED attempts
    /\ UNCHANGED << op, partial, parameters, marker, family, description, created, invocations, id, name, o, n, parameter, toRemove, toAdd,
                    paramsToModify, removals, additions, remoteExists, remoteName,
                    remoteFamily, remoteDescription >>

\* Lines 233-236: one ModifyDBParameterGroup call.
ModifyCall ==
    /\ pc = "modify_call"
    /\ \E e \in ParameterCallResults :
        /\ calls' = Append(calls, Call("ModifyDBParameterGroup", name, paramsToModify, e))
        /\ IF e = NilErr
           THEN /\ remoteParams' = AfterModify(remoteParams, paramsToModify)
                /\ pc' = "modify"
                /\ UNCHANGED err
           ELSE /\ UNCHANGED remoteParams
                /\ Return("Error modifying Neptune Parameter Group", e)
    /\ UNCHANGED << op, partial, parameters, marker, family, description, created, invocations, id, name, o, n, parameter, toRemove, toAdd,
                    paramsToModify, attempts, removals, additions, remoteExists,
                    remoteName, remoteFamily, remoteDescription >>

\* flattenNeptuneParameters: the recorded form of the remote parameters.
flattenNeptuneParameters(params) ==
    {[name |-> p.name, value |-> p.value, apply_method |-> ""] : p \in params}

\* Variant: "not found" is returned like any other error.
ReadAbsorbed_Never(e) == FALSE

\* Line 121: the describe error that ends Read with success.
ReadAbsorbed(e) == isAWSErr(e, "DBParameterGroupNotFound", << >>)

\* resourceAwsNeptuneParameterGroupRead, lines 115-136: DescribeDBParameterGroups.
DescribeGroups ==
    /\ pc = "Read"
    /\ \E e \in DescribeResults :
        /\ calls' = Append(calls, Call("DescribeDBParameterGroups", id, << >>, e))
        /\ IF e # NilErr
           THEN IF ReadAbsorbed(e)
                THEN /\ id' = << >>
                     /\ Return("", NilErr)
                     /\ UNCHANGED << name, family, description >>
                ELSE /\ Return("", e)
                     /\ UNCHANGED << id, name, family, description >>
           ELSE IF remoteName # id
                THEN /\ Return("Unable to find Parameter Group", NilErr)
                     /\ UNCHANGED << id, name, family, description >>
                ELSE /\ name' = remoteName
                     /\ family' = remoteFamily
                     /\ description' = remoteDescription
                     /\ pc' = "read_params"
                     /\ UNCHANGED << id, err >>
    /\ parameters' = << >>
    /\ marker' = 0
    /\ UNCHANGED << op, partial, created, invocations, o, n, parameter, locals, remote >>

\* Line 141: the origin Read asks for.
describeParametersSource == "user"

\* One DescribeDBParameters request of DescribeDBParametersPages: the
\* parameters already received and the page it returned.
DescribeCall(group, source, from, page, e) ==
    [api |-> "DescribeDBParameters", DBParameterGroupName |-> group,
     Parameters |-> << >>, err |-> e, Source |-> source, Marker |-> from,
     Page |-> page]

\* Variant: the callback asks for another page only after the last one.
PageCallback_StopsEarly(params, page, lastPage) ==
    [parameters |-> params \o page, more |-> lastPage]

\* Lines 146-149: the callback appends the page and asks for the next one
\* unless this was the last.
PageCallback(params, page, lastPage) ==
    [parameters |-> params \o page, more |-> ~lastPage]

\* Lines 138-158: DescribeDBParametersPages with Source "user", one
\* DescribeDBParameters request per step with the callback on its page; an
\* error of a request is returned (lines 150-152), and after the last page
\* the parameters are recorded (line 154).
DescribeParameters ==
    /\ pc = "read_params"
    /\ \E e \in DescribeResults :
        \E p \in {PageAfter(QueryParameters(describeParametersSource), marker)} :
            IF e # NilErr
            THEN /\ calls' = Append(calls, DescribeCall(id, describeParametersSource,
                                                        marker, << >>, e))
                 /\ Return("", e)
                 /\ UNCHANGED << parameter, parameters, marker >>
            ELSE \E r \in {PageCallback(parameters, p.page, p.lastPage)} :
                 /\ calls' = Append(calls, DescribeCall(id, describeParametersSource,
                                                        marker, p.page, e))
                 /\ parameters' = r.parameters
                 /\ marker' = marker + Len(p.page)
                 /\ IF r.more /\ ~p.lastPage
                    THEN UNCHANGED << pc, err, parameter >>
                    ELSE /\ parameter' = flattenNeptuneParameters(Range(r.parameters))
                         /\ Return("", NilErr)
    /\ UNCHANGED << op, partial, family, description, created, invocations, id, name, o, n, locals, remote >>

\* resourceAwsNeptuneParameterGroupDelete: one DeleteDBParameterGroup call
\* inside resource.Retry.
Delete ==
    /\ pc = "Delete"
    /\ \E e \in DeleteResults :
        /\ calls' = Append(calls, Call("DeleteDBParameterGroup", id, << >>, e))
        /\ attempts' = attempts + 1
        /\ IF e = NilErr
           THEN /\ remoteExists' = FALSE
                /\ remoteParams' = {}
                /\ Return("", NilErr)
           ELSE /\ UNCHANGED << remoteExists, remoteParams >>
                /\ IF DeleteAbsorbed(e)
                   THEN Return("", NilErr)
                   ELSE IF DeleteRetryable(e) /\ BudgetLeft(attempts + 1)
                        THEN UNCHANGED << pc, err >>
                        ELSE Return("", e)
    /\ UNCHANGED << op, partial, parameters, marker, family, description, created, invocations, id, name, o, n, parameter, toRemove, toAdd,
                    paramsToModify, removals, additions, remoteName, remoteFamily,
                    remoteDescription >>

\* The remote group disappears while Delete is between two calls (the pending
\* operation that made DeleteDBParameterGroup fail has removed it), or while
\* Read is between two DescribeDBParameters requests.
RemoteRemoved ==
    /\ \/ pc = "Delete" /\ attempts > 0
       \/ pc = "read_params" /\ marker > 0
    /\ remoteExists
    /\ remoteExists' = FALSE
    /\ remoteParams' = {}
    /\ UNCHANGED << op, partial, parameters, marker, family, description, created, pc, invocations, id, name,
                    o, n, parameter, locals, err, calls, remoteName, remoteFamily,
                    remoteDescription >>

\* The framework invokes Delete once more on the same resource data.
InvokeDelete ==
    /\ pc = "done"
    /\ op = "Delete"
    /\ invocations < MaxInvocations
    /\ invocations' = invocations + 1
    /\ pc' = "Delete"
    /\ attempts' = 0
    /\ err' = ReturnedNil
    /\ calls' = << >>
    /\ UNCHANGED << op, partial, parameters, marker, family, description, created, id, name, o, n, parameter, toRemove, toAdd,
                    paramsToModify, removals, additions, remote >>

\* The framework keeps a resource whose Create returned with the identifier
\* set, also when it returned an error, and invokes Read or Delete on it
\* later.  A Create that returned in partial mode (line 164) recorded the
\* identifier alone: the keys of lines 101-103 were dropped at line 104.
\* Otherwise the recorded name is the lower-case form of the declared one
\* (lines 36-38).
InvokeAfterCreate ==
    /\ pc = "done"
    /\ op = "Create"
    /\ id # << >>
    /\ invocations < MaxInvocations
    /\ invocations' = invocations + 1
    /\ \E h \in {"Read", "Delete"} :
        /\ op' = h
        /\ pc' = h
    /\ name' = IF partial THEN << >> ELSE ToLower(name)
    /\ family' = IF partial THEN "" ELSE family
    /\ description' = IF partial THEN "" ELSE description
    /\ partial' = FALSE
    /\ parameters' = << >>
    /\ marker' = 0
    /\ toRemove' = << >>
    /\ toAdd' = << >>
    /\ paramsToModify' = << >>
    /\ removals' = << >>
    /\ additions' = << >>
    /\ attempts' = 0
    /\ err' = ReturnedNil
    /\ calls' = << >>
    /\ UNCHANGED << id, created, o, n, parameter, remote >>

Next ==
    \/ Create
    \/ UpdateDiff
    \/ ResetLoop
    \/ ResetCall
    \/ ModifyLoop
    \/ ModifyCall
    \/ DescribeGroups
    \/ DescribeParameters
    \/ Delete
    \/ RemoteRemoved
    \/ InvokeDelete
    \/ InvokeAfterCreate

Spec == Init /\ [][Next]_vars

\* The steps of the running handler: the goroutine that runs it is scheduled
\* until it returns.  The remote service and the framework are under no
\* obligation to act.
HandlerStep ==
    \/ Create
    \/ UpdateDiff
    \/ ResetLoop
    \/ ResetCall
    \/ ModifyLoop
    \/ ModifyCall
    \/ DescribeGroups
    \/ DescribeParameters
    \/ Delete

\* The runs whose sets have an edge size (empty, one batch, the largest) or
\* are small.
InitEdge ==
    /\ Init
    /\ Cardinality(o) \in BulkEdge \cup (0..2)
    /\ Cardinality(n) \in BulkEdge \cup (0..2)

FairSpec == InitEdge /\ [][Next]_vars /\ WF_vars(HandlerStep)

(***************************************************************************)
(* Vocabulary of the properties.                                           *)
(***************************************************************************)
IsReset(c) == c.api = "ResetDBParameterGroup"
IsModify(c) == c.api = "ModifyDBParameterGroup"
IsDescribe(c) == c.api \in {"DescribeDBParameterGroups", "DescribeDBParameters"}
IsDelete(c) == c.api = "DeleteDBParameterGroup"

Indices == 1..Len(calls)

ResetCalls == SelectSeq(calls, IsReset)
ModifyCalls == SelectSeq(calls, IsModify)

Succeeded(c) == c.err = NilErr

RECURSIVE ConcatBatches(_)
ConcatBatches(cs) ==
    IF cs = << >> THEN << >> ELSE Head(cs).Parameters \o ConcatBatches(Tail(cs))

\* The lists Update computed from the recorded and the declared set.
RemovalList == removals
AdditionList == additions

CeilDiv(k, d) == (k + d - 1) \div d

CreateError == "Error creating Neptune Parameter Group"
ResetError == "Error resetting Neptune Parameter Group"
ModifyError == "Error modifying Neptune Parameter Group"

\* The handler ran the parameter pipeline (Update itself, or Create after
\* its CreateDBParameterGroup call).
InPipeline == op \in {"Create", "Update"}

\* Every removal batch has been issued and has succeeded.
RemovalsComplete ==
    /\ InPipeline
    /\ \/ pc \in {"modify", "modify_call"}
       \/ pc \in {"Read", "read_params"}
       \/ /\ pc = "done"
          /\ err.context \notin {"Error creating Neptune Parameter Group",
                                 "Error resetting Neptune Parameter Group"}

\* Every addition batch has been issued and has succeeded.
AdditionsComplete ==
    /\ RemovalsComplete
    /\ pc \in {"Read", "read_params", "done"}
    /\ err.context # "Error modifying Neptune Parameter Group"

\* Update returned because a Reset or a Modify batch failed.
Aborted ==
    /\ pc = "done"
    /\ err.context \in {"Error resetting Neptune Parameter Group",
                        "Error modifying Neptune Parameter Group"}

(***************************************************************************)
(* C1. In every run of Update, whatever the remote failures, every         *)
(* ResetDBParameterGroup call precedes every ModifyDBParameterGroup call,  *)
(* and a ModifyDBParameterGroup call is issued only after every removal    *)
(* batch has been issued and has succeeded.                                *)
(***************************************************************************)
C1_ResetsBeforeModifies ==
    /\ \A i, j \in Indices : IsReset(calls[i]) /\ IsModify(calls[j]) => i < j
    /\ (\E j \in Indices : IsModify(calls[j])) =>
          /\ toRemove = << >>
          /\ ConcatBatches(SelectSeq(ResetCalls, Succeeded)) = RemovalList

\* Two removal batches, one of them after a failed attempt, then an addition.
C1_Witness ==
    /\ \E i \in Indices : IsReset(calls[i]) /\ ~Succeeded(calls[i])
    /\ Len(SelectSeq(ResetCalls, Succeeded)) >= 2
    /\ Len(ModifyCalls) >= 1

(***************************************************************************)
(* C2. Whenever Update returns, after success or after an abort on a       *)
(* failed Reset or Modify batch, it has performed the Read.                *)
(***************************************************************************)
UpdateReturned ==
    /\ InPipeline
    /\ pc = "done"
    /\ err.context # "Error creating Neptune Parameter Group"

ReadIssued == \E i \in Indices : calls[i].api = "DescribeDBParameterGroups"

C2_ReadBeforeEveryReturn == UpdateReturned => ReadIssued

\* Update aborted on a batch after an earlier batch had changed the remote
\* set: it returned without a Read, and the recorded set is the old one, not
\* what the remote service holds.
C2_WitnessNoReadBack ==
    /\ op = "Update"
    /\ UpdateReturned
    /\ Aborted
    /\ ~ReadIssued
    /\ \E i \in Indices : Succeeded(calls[i])
    /\ parameter = o
    /\ parameter # flattenNeptuneParameters(remoteParams)

(***************************************************************************)
(* C3. Every batch sent has between 1 and maxParams parameters. When all   *)
(* calls succeed, the removal batches concatenated in the order sent are   *)
(* the removal list, their number is ceil(n / maxParams) for a list of     *)
(* length n (none for n = 0), and likewise for the additions.              *)
(***************************************************************************)
AllSucceeded(cs) == \A i \in 1..Len(cs) : Succeeded(cs[i])

C3_Batching ==
    /\ \A i \in Indices :
          IsReset(calls[i]) \/ IsModify(calls[i]) =>
              /\ Len(calls[i].Parameters) >= 1
              /\ Len(calls[i].Parameters) <= maxParams
    /\ (RemovalsComplete /\ AllSucceeded(ResetCalls)) =>
          /\ ConcatBatches(ResetCalls) = RemovalList
          /\ Len(ResetCalls) = CeilDiv(Len(RemovalList), maxParams)
    /\ (AdditionsComplete /\ AllSucceeded(ModifyCalls)) =>
          /\ ConcatBatches(ModifyCalls) = AdditionList
          /\ Len(ModifyCalls) = CeilDiv(Len(AdditionList), maxParams)

\* Three removal and three addition batches, all successful at the first
\* attempt, the last removal batch a short one.
C3_Witness ==
    /\ AdditionsComplete
    /\ pc = "done"
    /\ Len(ResetCalls) = 3
    /\ AllSucceeded(ResetCalls)
    /\ Len(ModifyCalls) = 3
    /\ Len(ResetCalls[3].Parameters) < maxParams
    /\ Len(ResetCalls[1].Parameters) = maxParams

(***************************************************************************)
(* C4. The parameters Update takes for removal are exactly the elements of *)
(* the old set whose identity (name, lowercase(value)) is absent from the  *)
(* new set, those for addition exactly the elements of the new set whose   *)
(* identity is absent from the old set, each once; when every call         *)
(* succeeded these are the parameters sent.                                *)
(***************************************************************************)
Identity(m) == << m.name, ToLower(m.value) >>

Identities(s) == {Identity(m) : m \in s}

Sent(m) == [ParameterName |-> m.name, ParameterValue |-> m.value,
            ApplyMethod |-> m.apply_method]

OnlyIn(s, t) ==
    LET other == Identities(t)
    IN  {Sent(m) : m \in {x \in s : Identity(x) \notin other}}

\* The differences have been computed or, the sets being equal, skipped.
Diffed == InPipeline /\ pc \notin {"Create", "Update"} /\ err.context # CreateError

JustDiffed == InPipeline /\ pc = "reset" /\ ResetCalls = << >>

C4_DiffByIdentity ==
    /\ (Diffed /\ ResetCalls = << >> /\ ModifyCalls = << >>) =>
          /\ Range(removals) = OnlyIn(o, n)
          /\ Len(removals) = Cardinality(OnlyIn(o, n))
          /\ Range(additions) = OnlyIn(n, o)
          /\ Len(additions) = Cardinality(OnlyIn(n, o))
    /\ JustDiffed => (toRemove = removals /\ toAdd = additions)
    /\ AdditionsComplete =>
          /\ ConcatBatches(SelectSeq(ResetCalls, Succeeded)) = removals
          /\ ConcatBatches(ModifyCalls) = additions

\* The old and the new set share no identity, and nothing is taken for
\* removal or for addition: "a" with "y-z" and "a-y" with "z" have one hash.
C4_WitnessSameHash ==
    /\ JustDiffed
    /\ o # {}
    /\ n # {}
    /\ Identities(o) \cap Identities(n) = {}
    /\ removals = << >>
    /\ additions = << >>

(***************************************************************************)
(* C5. When the old and the new set have the same identities (equal sets,  *)
(* or sets that differ in the letter case of values or in apply methods),  *)
(* Update issues no Reset and no Modify call; it only performs the Read.   *)
(***************************************************************************)
\* Sets that hold one element per identity have the same identities only if
\* they have the same size.
SameIdentities(s, t) == Cardinality(s) = Cardinality(t) /\ Identities(s) = Identities(t)

C5_NoCallsWithoutIdentityChange ==
    (InPipeline /\ op = "Update" /\ SameIdentities(o, n)) =>
        /\ ResetCalls = << >>
        /\ ModifyCalls = << >>
        /\ pc = "done" =>
              /\ calls # << >>
              /\ \A i \in Indices : IsDescribe(calls[i])

\* Update has returned for sets that differ in value case and apply method only.
C5_Witness ==
    /\ op = "Update"
    /\ pc = "done"
    /\ o # n
    /\ Identities(o) = Identities(n)
    /\ \E x \in o, y \in n :
          /\ Identity(x) = Identity(y)
          /\ x.value # y.value
          /\ x.apply_method # y.apply_method
    /\ Len(calls) = 2

(***************************************************************************)
(* C6. A ResetDBParameterGroup call that fails with the "has pending       *)
(* changes" conflict is followed, while the retry budget lasts, by a call  *)
(* with the same batch; once such a batch succeeds Update goes on (to the  *)
(* next batch) and returns no reset error for it.                          *)
(***************************************************************************)

LastCall == calls[Len(calls)]

\* The parameters of the removal batches that succeeded among the first i calls.
RemovedThrough(i) ==
    LET Removal(c) == IsReset(c) /\ Succeeded(c)
    IN  ConcatBatches(SelectSeq(SubSeq(calls, 1, i), Removal))

C6_PendingResetRetried ==
    /\ \A i \in Indices :
          (IsReset(calls[i]) /\ calls[i].err = PendingErr) =>
              IF i < Len(calls)
              THEN /\ IsReset(calls[i + 1])
                   /\ calls[i + 1].Parameters = calls[i].Parameters
              ELSE \/ /\ pc = "reset_call"
                      /\ attempts < MaxAttempts
                      /\ paramsToModify = calls[i].Parameters
                   \/ /\ pc = "done"
                      /\ attempts = MaxAttempts
                      /\ err = Returned(ResetError, PendingErr)
    /\ \A i \in Indices :
          (/\ i > 1
           /\ IsReset(calls[i]) /\ Succeeded(calls[i])
           /\ IsReset(calls[i - 1]) /\ calls[i - 1].err = PendingErr) =>
              /\ i = Len(calls) => (err = ReturnedNil /\ pc # "done")
              /\ i < Len(calls) =>
                    LET removed == RemovedThrough(i)
                        next == calls[i + 1]
                    IN  /\ next.Parameters # calls[i].Parameters
                        /\ removed = SubSeq(RemovalList, 1, Len(removed))
                        /\ IF Len(removed) < Len(RemovalList)
                           THEN /\ IsReset(next)
                                /\ next.Parameters =
                                      SubSeq(RemovalList, Len(removed) + 1,
                                             Len(removed) + Len(next.Parameters))
                           ELSE ~IsReset(next)
    /\ err.context = ResetError =>
          /\ pc = "done"
          /\ IsReset(LastCall)
          /\ ~Succeeded(LastCall)
          /\ err.cause = LastCall.err

\* A batch fails twice with the conflict, succeeds at the third call, and the
\* next batch is sent.
C6_Witness ==
    /\ Len(calls) >= 4
    /\ \E i \in 1..(Len(calls) - 3) :
          /\ IsReset(calls[i]) /\ calls[i].err = PendingErr
          /\ IsReset(calls[i + 1]) /\ calls[i + 1].err = PendingErr
          /\ IsReset(calls[i + 2]) /\ Succeeded(calls[i + 2])
          /\ calls[i + 2].Parameters = calls[i].Parameters
          /\ IsReset(calls[i + 3])
          /\ calls[i + 3].Parameters # calls[i].Parameters
    /\ err = ReturnedNil

(***************************************************************************)
(* C7. A ResetDBParameterGroup call that fails with an error other than    *)
(* the "has pending changes" conflict is not repeated (a batch whose first *)
(* call fails so is sent exactly once); Update returns that error, and no  *)
(* further Reset or Modify call is issued.                                 *)
(***************************************************************************)
C7_OtherResetErrorAborts ==
    \A i \in Indices :
        (IsReset(calls[i]) /\ calls[i].err \notin {NilErr, PendingErr}) =>
            /\ i = Len(calls)
            /\ pc = "done"
            /\ err = Returned(ResetError, calls[i].err)
            /\ (i = 1 \/ ~IsReset(calls[i - 1]) \/ Succeeded(calls[i - 1])) =>
                  \A j \in Indices :
                      (IsReset(calls[j]) /\ calls[j].Parameters = calls[i].Parameters)
                          => j = i

\* The second removal batch fails at its first call with the state error
\* that is no conflict; a removal and an addition batch are left unsent.
C7_Witness ==
    /\ Len(calls) = 2
    /\ IsReset(calls[1]) /\ Succeeded(calls[1])
    /\ IsReset(calls[2]) /\ calls[2].err = StateErr
    /\ pc = "done"
    /\ err = Returned(ResetError, StateErr)
    /\ toRemove # << >>
    /\ toAdd # << >>

(***************************************************************************)
(* C8. Every addition batch is sent to ModifyDBParameterGroup exactly      *)
(* once; when the call fails, the conflict error included, Update returns  *)
(* the error and sends no later batch.                                     *)
(***************************************************************************)
C8_ModifyNeverRetried ==
    \A i \in Indices :
        IsModify(calls[i]) =>
            /\ \A j \in Indices :
                  (IsModify(calls[j]) /\ calls[j].Parameters = calls[i].Parameters)
                      => j = i
            /\ ~Succeeded(calls[i]) =>
                  /\ i = Len(calls)
                  /\ pc = "done"
                  /\ err = Returned(ModifyError, calls[i].err)

\* The second of three addition batches fails with the conflict error.
C8_Witness ==
    /\ Len(ModifyCalls) = 2
    /\ Succeeded(ModifyCalls[1])
    /\ ModifyCalls[2].err = PendingErr
    /\ pc = "done"
    /\ err = Returned(ModifyError, PendingErr)
    /\ toAdd # << >>

(***************************************************************************)
(* C9. When DeleteDBParameterGroup reports "not found", at the first call  *)
(* or at a retry, Delete makes no further call and returns nil; so does a  *)
(* second Delete of a group the first one removed.                         *)
(***************************************************************************)
C9_DeleteNotFoundSucceeds ==
    \A i \in Indices :
        (IsDelete(calls[i]) /\ calls[i].err = NotFoundErr) =>
            /\ i = Len(calls)
            /\ pc = "done"
            /\ err = ReturnedNil

\* The second Delete in a row finds the group absent and returns nil.
C9_Witness ==
    /\ op = "Delete"
    /\ invocations = 2
    /\ ~remoteExists
    /\ pc = "done"
    /\ Len(calls) = 1
    /\ calls[1].err = NotFoundErr
    /\ err = ReturnedNil

\* "Not found" at a retry after a conflict.
C9_WitnessRetry ==
    /\ op = "Delete"
    /\ pc = "done"
    /\ Len(calls) = 2
    /\ calls[1].err = StateErr
    /\ calls[2].err = NotFoundErr
    /\ err = ReturnedNil

(***************************************************************************)
(* C10. In Delete, a failure with code InvalidDBParameterGroupState is     *)
(* followed by another DeleteDBParameterGroup call while the retry budget  *)
(* lasts; a failure that is neither that nor "not found" is returned as    *)
(* the error, with no further call.                                        *)
(***************************************************************************)
C10_DeleteRetryPolicy ==
    \A i \in Indices :
        IsDelete(calls[i]) =>
            /\ calls[i].err.code = "InvalidDBParameterGroupState" =>
                  IF i < Len(calls)
                  THEN IsDelete(calls[i + 1])
                  ELSE \/ pc = "Delete" /\ attempts < MaxAttempts
                       \/ /\ pc = "done"
                          /\ attempts = MaxAttempts
                          /\ err = Returned("", calls[i].err)
            /\ calls[i].err.code \notin
                    {"", "DBParameterGroupNotFound", "InvalidDBParameterGroupState"} =>
                  /\ i = Len(calls)
                  /\ pc = "done"
                  /\ err = Returned("", calls[i].err)

\* An invalid-state failure, a second call, and a failure of another kind.
C10_Witness ==
    /\ op = "Delete"
    /\ Len(calls) = 2
    /\ calls[1].err = StateErr
    /\ calls[2].err = OtherErr
    /\ pc = "done"
    /\ err = Returned("", OtherErr)

(***************************************************************************)
(* C11: when DescribeDBParameterGroups answers "not found", Read clears    *)
(* the identifier, returns no error, ends without a DescribeDBParameters   *)
(* call, and leaves the recorded name, family, description and parameters  *)
(* as they were.                                                           *)
(***************************************************************************)
NotFoundAnswered ==
    /\ pc = "Read"
    /\ calls' # calls
    /\ calls'[Len(calls')].err = NotFoundErr

C11_ReadNotFoundClearsId ==
    [][NotFoundAnswered =>
        /\ id' = << >>
        /\ pc' = "done"
        /\ err' = ReturnedNil
        /\ calls' = Append(calls, Call("DescribeDBParameterGroups", id, << >>, NotFoundErr))
        /\ UNCHANGED << name, family, description, parameter >>]_vars

C11_Witness ==
    /\ op = "Read"
    /\ pc = "done"
    /\ id = << >>
    /\ err = ReturnedNil
    /\ Len(calls) = 1
    /\ calls[1].err = NotFoundErr
    /\ name = GroupUpperPG
    /\ family = FamilyNeptune1
    /\ parameter # {}

(***************************************************************************)
(* C12: when CreateDBParameterGroup fails, Create returns the error, the   *)
(* identifier stays empty, and Create issues no Reset, Modify or Describe  *)
(* call.                                                                   *)
(***************************************************************************)
CreateFailed ==
    /\ op = "Create"
    /\ Len(calls) >= 1
    /\ calls[1].api = "CreateDBParameterGroup"
    /\ calls[1].err # NilErr

C12_CreateFailureLeavesNoId ==
    CreateFailed =>
        /\ pc = "done"
        /\ err = Returned(CreateError, calls[1].err)
        /\ id = << >>
        /\ Len(calls) = 1

C12_Witness ==
    /\ CreateFailed
    /\ pc = "done"
    /\ id = << >>
    /\ n # {}
    /\ name = GroupUpperPG

(***************************************************************************)
(* C13: a Create with N declared parameters in which every remote call     *)
(* succeeds issues, in this order, one CreateDBParameterGroup call, no     *)
(* Reset call, ceil(N / maxParams) Modify calls that are full but for the  *)
(* last and carry the N parameters between them, and then the calls of a   *)
(* Read, which records the N parameters.                                   *)
(***************************************************************************)
IsPageRequest(c) == c.api = "DescribeDBParameters"

\* The DescribeDBParameters requests of the invocation, in order.
PageRequests == SelectSeq(calls, IsPageRequest)

CreateSucceeded ==
    /\ op = "Create"
    /\ pc = "done"
    /\ AllSucceeded(calls)

C13_CreateCallSequence ==
    CreateSucceeded =>
        LET N == Cardinality(n)
            k == CeilDiv(N, maxParams)
        IN  /\ Len(calls) >= 1 + k + 2
            /\ calls[1].api = "CreateDBParameterGroup"
            /\ \A i \in 1..k :
                  /\ IsModify(calls[1 + i])
                  /\ Len(calls[1 + i].Parameters) =
                        IF i < k THEN maxParams ELSE N - maxParams * (k - 1)
            /\ Range(ConcatBatches(ModifyCalls)) = {Sent(m) : m \in n}
            /\ calls[k + 2].api = "DescribeDBParameterGroups"
            /\ \A i \in (k + 3)..Len(calls) : calls[i].api = "DescribeDBParameters"
            /\ err = ReturnedNil
            /\ parameter = flattenNeptuneParameters(RemoteOf(n))

(***************************************************************************)
(* C13, amended: the same calls in the same order, and the Read records    *)
(* one parameter for each name among the N, with a value declared for that *)
(* name; all N parameters when no two of them have the same name.          *)
(***************************************************************************)
ParameterNames(s) == {m.name : m \in s}

C13_CreateReadsEveryName ==
    CreateSucceeded =>
        LET N == Cardinality(n)
            k == CeilDiv(N, maxParams)
        IN  /\ Len(calls) >= 1 + k + 2
            /\ calls[1].api = "CreateDBParameterGroup"
            /\ \A i \in 1..k :
                  /\ IsModify(calls[1 + i])
                  /\ Len(calls[1 + i].Parameters) =
                        IF i < k THEN maxParams ELSE N - maxParams * (k - 1)
            /\ Range(ConcatBatches(ModifyCalls)) = {Sent(m) : m \in n}
            /\ calls[k + 2].api = "DescribeDBParameterGroups"
            /\ \A i \in (k + 3)..Len(calls) : calls[i].api = "DescribeDBParameters"
            /\ err = ReturnedNil
            /\ parameter \subseteq recordedParameter(n)
            /\ ParameterNames(parameter) = ParameterNames(n)
            /\ UniqueNames(parameter)
            /\ UniqueNames(n) => parameter = flattenNeptuneParameters(RemoteOf(n))

\* A Create of two values for one name: both are sent, one is recorded.
C13_WitnessSameName ==
    /\ CreateSucceeded
    /\ Cardinality(n) = 2
    /\ ~UniqueNames(n)
    /\ Len(calls[2].Parameters) = 2
    /\ Cardinality(parameter) = 1

C13_Witness ==
    /\ CreateSucceeded
    /\ Cardinality(n) = maxParams + 5
    /\ calls[4].api = "DescribeDBParameterGroups"
    /\ Len(PageRequests) = Len(calls) - 4
    /\ Len(PageRequests) >= 3
    /\ Len(calls[2].Parameters) = maxParams
    /\ Len(calls[3].Parameters) = 5
    /\ Cardinality(parameter) = maxParams + 5

(***************************************************************************)
(* C14: once Create has created the group, the identifier is the name that *)
(* CreateDBParameterGroup returned, and every later remote call (Describe, *)
(* Reset, Modify, Delete) names the group by that identifier, also when    *)
(* the declared name differs from it in letter case.                       *)
(***************************************************************************)
AddressesGroup(c) == IsDescribe(c) \/ IsReset(c) \/ IsModify(c) \/ IsDelete(c)

C14_EveryCallAddressedById ==
    created =>
        /\ id \in {remoteName, << >>}
        /\ \A i \in Indices :
              AddressesGroup(calls[i]) => calls[i].DBParameterGroupName = remoteName

(***************************************************************************)
(* C15: Update and Delete terminate.  A retry makes at most MaxAttempts    *)
(* calls; when the remote service answers every call of a retry with the   *)
(* retryable conflict error, the handler returns that error once the       *)
(* budget is used up; and every invoked handler returns.                   *)
(***************************************************************************)
RetryExhausted ==
    /\ attempts = MaxAttempts
    /\ Len(calls) >= MaxAttempts
    /\ \A i \in (Len(calls) - MaxAttempts + 1)..Len(calls) :
          \/ IsReset(calls[i]) /\ ResetRetryable(calls[i].err)
          \/ IsDelete(calls[i]) /\ DeleteRetryable(calls[i].err)

BoundedRetry ==
    /\ attempts <= MaxAttempts
    /\ RetryExhausted =>
          /\ pc = "done"
          /\ err.cause = LastCall.err
          /\ IsReset(LastCall) => err.context = ResetError

C15_RetryTerminates ==
    /\ []BoundedRetry
    /\ (pc # "done") ~> (pc = "done")

C15_Witness ==
    /\ op = "Update"
    /\ RetryExhausted
    /\ pc = "done"
    /\ err = Returned(ResetError, PendingErr)
    /\ Len(calls) > MaxAttempts

C15_WitnessDelete ==
    /\ op = "Delete"
    /\ RetryExhausted
    /\ pc = "done"
    /\ err.cause = StateErr

(***************************************************************************)
(* C16: after every Read that succeeded, the recorded parameter set holds  *)
(* exactly the parameters of all the pages of the response to the query    *)
(* for user-origin parameters, however many pages there are, and no        *)
(* system-origin parameter.                                                *)
(***************************************************************************)
ReadSucceeded ==
    /\ pc = "done"
    /\ Len(calls) >= 1
    /\ LastCall.api = "DescribeDBParameters"
    /\ Succeeded(LastCall)

PageParameters(reqs) == UNION {Range(reqs[i].Page) : i \in 1..Len(reqs)}

IsBatch(c) == IsReset(c) \/ IsModify(c)

\* The k-th batch of maxParams elements of a list.
Chunk(list, k) ==
    SubSeq(list, maxParams * (k - 1) + 1,
           IF maxParams * k < Len(list) THEN maxParams * k ELSE Len(list))

\* The calls of the run in which every call succeeds.
PlannedResets == CeilDiv(Len(removals), maxParams)
PlannedModifies == CeilDiv(Len(additions), maxParams)

PlannedCall(k) ==
    IF k <= PlannedResets
    THEN [api |-> "ResetDBParameterGroup", Parameters |-> Chunk(removals, k)]
    ELSE [api |-> "ModifyDBParameterGroup",
          Parameters |-> Chunk(additions, k - PlannedResets)]

\* The batches that succeeded among the calls before the last.
SucceededBefore ==
    Cardinality({i \in 1..(Len(calls) - 1) : IsBatch(calls[i]) /\ Succeeded(calls[i])})

\* The remote set after the calls that succeeded.
RECURSIVE Applied(_, _)
Applied(params, cs) ==
    IF cs = << >> THEN params
    ELSE LET c == Head(cs)
             after == IF ~Succeeded(c) THEN params
                      ELSE IF IsReset(c) THEN AfterReset(params, c.Parameters)
                      ELSE IF IsModify(c) THEN AfterModify(params, c.Parameters)
                      ELSE params
         IN  Applied(after, Tail(cs))

C17_NoRollback ==
    InPipeline =>
        /\ (Len(calls) >= 1 /\ IsBatch(LastCall)) =>
              LET k == SucceededBefore + 1
              IN  /\ k <= PlannedResets + PlannedModifies
                  /\ LastCall.api = PlannedCall(k).api
                  /\ LastCall.Parameters = PlannedCall(k).Parameters
        /\ Aborted =>
              /\ IsBatch(LastCall)
              /\ ~Succeeded(LastCall)
              /\ remoteParams = Applied(RemoteOf(o), calls)

C17_Witness ==
    /\ op = "Update"
    /\ Aborted
    /\ IsModify(LastCall)
    /\ \E i \in Indices : IsReset(calls[i]) /\ Succeeded(calls[i])
    /\ \E i \in Indices : IsModify(calls[i]) /\ Succeeded(calls[i])
    /\ remoteParams # RemoteOf(o)
    /\ remoteParams # {}

(***************************************************************************)
(* C18: convergence.  The remote user-origin set starts as the recorded    *)
(* set; when every Reset and Modify call of an Update succeeded, the       *)
(* remote set has the identities of the declared set.  A parameter whose   *)
(* name is kept and whose value changes was sent in a Reset batch with the *)
(* old value and in a later Modify batch with the new value, and the       *)
(* remote set holds the new value.                                         *)
(***************************************************************************)
PipelineSucceeded ==
    /\ InPipeline
    /\ pc = "Read"
    /\ AllSucceeded(calls)

RemoteIdentities == {<< p.name, ToLower(p.value) >> : p \in remoteParams}

ValueChanged(x, y) == x.name = y.name /\ Identity(x) # Identity(y)

ResetThenModified(x, y) ==
    \E i \in Indices : \E j \in Indices :
        /\ i < j
        /\ IsReset(calls[i])
        /\ Sent(x) \in Range(calls[i].Parameters)
        /\ IsModify(calls[j])
        /\ Sent(y) \in Range(calls[j].Parameters)

C18_Convergence ==
    PipelineSucceeded =>
        /\ RemoteIdentities = Identities(n)
        /\ \A x \in o : \A y \in n :
              ValueChanged(x, y) =>
                  /\ ResetThenModified(x, y)
                  /\ [name |-> y.name, value |-> y.value] \in remoteParams

\* An Update whose sets share no identity issued no call: the remote set
\* still has the identities of the old set.
C18_WitnessNoCall ==
    /\ op = "Update"
    /\ PipelineSucceeded
    /\ calls = << >>
    /\ Identities(o) \cap Identities(n) = {}
    /\ n # {}
    /\ RemoteIdentities = Identities(o)
    /\ RemoteIdentities # Identities(n)

(***************************************************************************)
(* C19: when CreateDBParameterGroup succeeded and a later Reset or Modify  *)
(* batch of the same Create failed, Create returns the error with the      *)
(* identifier set to the name CreateDBParameterGroup returned; a Read or   *)
(* Delete invoked afterwards addresses the group by it; and the identifier *)
(* is never empty while the group that Create created exists remotely.     *)
(***************************************************************************)
CreateAborted ==
    /\ op = "Create"
    /\ Aborted

C19_CreatedGroupStaysTracked ==
    /\ CreateAborted =>
          /\ created
          /\ remoteExists
          /\ id = remoteName
    /\ (created /\ remoteExists) => (id # << >> /\ id = remoteName)
    /\ (created /\ op \in {"Read", "Delete"}) =>
          \A i \in Indices : calls[i].DBParameterGroupName = remoteName

C19_Witness ==
    /\ created
    /\ op = "Read"
    /\ ReadSucceeded
    /\ id = GroupPG
    /\ Cardinality(parameter) = maxParams
    /\ Cardinality(n) > maxParams

C19_WitnessAborted ==
    /\ CreateAborted
    /\ err.context = ModifyError
    /\ partial
    /\ name = GroupUpperPG
    /\ id = GroupPG
    /\ Len(calls) = 2

C19_WitnessDelete ==
    /\ created
    /\ op = "Delete"
    /\ pc = "done"
    /\ ~remoteExists
    /\ LastCall.DBParameterGroupName = GroupPG
    /\ Succeeded(LastCall)

============================================================================
